---- MODULE Spec2Model ----
(***************************************************************************)
(* Model of xlsx2md.py: ExcelToMarkdownConverter.convert and the helpers   *)
(* it calls.  Python strings are sequences of one-character strings, the   *)
(* Python value None is the one-element sequence None, a dict is a         *)
(* function whose DOMAIN is its key set, and a raised exception is the     *)
(* name of its class in the variable err.                                  *)
(***************************************************************************)
EXTENDS Integers, Sequences, FiniteSets, TLC

\* ---------------------------------------------------------------- bounds
MaxRows == 2
MaxCells == 2
MaxFonts == 2
MaxXfs == 2
MaxIndent == 2
MaxSi == 2

\* ------------------------------------------------------- Python strings
None == <<"<None>">>

NoneText == <<"N", "o", "n", "e">>

Digits == <<"0", "1", "2", "3", "4", "5", "6", "7", "8", "9">>

IsDigit(c) == \E i \in 1..10 : Digits[i] = c

DigitVal(c) == (CHOOSE i \in 1..10 : Digits[i] = c) - 1

RECURSIVE DigitsVal(_)
DigitsVal(s) ==
  IF s = <<>> THEN 0
  ELSE 10 * DigitsVal(SubSeq(s, 1, Len(s) - 1)) + DigitVal(s[Len(s)])

AllDigits(s) == s # <<>> /\ \A i \in 1..Len(s) : IsDigit(s[i])

\* int(text): ok is FALSE where Python raises ValueError
PyInt(s) ==
  IF AllDigits(s) THEN [ok |-> TRUE, n |-> DigitsVal(s)]
  ELSE IF Len(s) > 1 /\ s[1] = "-" /\ AllDigits(Tail(s))
       THEN [ok |-> TRUE, n |-> 0 - DigitsVal(Tail(s))]
  ELSE IF Len(s) > 1 /\ s[1] = "+" /\ AllDigits(Tail(s))
       THEN [ok |-> TRUE, n |-> DigitsVal(Tail(s))]
  ELSE [ok |-> FALSE, n |-> 0]

\* the text of the decimal numeral of a one-digit number, as the XML carries it
IntText(n) == IF n < 0 THEN <<"-", Digits[1 - n]>> ELSE <<Digits[n + 1]>>

\* f"{value}"
PyFormat(v) == IF v = None THEN NoneText ELSE v

\* t.text or ''
TextOrEmpty(v) == IF v = None THEN <<>> ELSE v

\* c * n
Rep(c, n) == [i \in 1..n |-> c]

RECURSIVE Concat(_)
Concat(list) ==
  IF list = <<>> THEN <<>> ELSE Head(list) \o Concat(Tail(list))

\* sep.join(list)
RECURSIVE Join(_, _)
Join(list, sep) ==
  IF list = <<>> THEN <<>>
  ELSE IF Len(list) = 1 THEN list[1]
  ELSE list[1] \o sep \o Join(Tail(list), sep)

\* s.split(c) for a one-character separator
RECURSIVE Split(_, _)
Split(s, c) ==
  IF \A i \in 1..Len(s) : s[i] # c THEN <<s>>
  ELSE LET i == CHOOSE k \in 1..Len(s) :
                   s[k] = c /\ \A j \in 1..(k - 1) : s[j] # c
       IN  <<SubSeq(s, 1, i - 1)>> \o Split(SubSeq(s, i + 1, Len(s)), c)

\* a in b
IsSubstring(a, b) ==
  \E i \in 0..(Len(b) - Len(a)) : SubSeq(b, i + 1, i + Len(a)) = a

\* s.startswith(p)
StartsWith(s, p) == Len(s) >= Len(p) /\ SubSeq(s, 1, Len(p)) = p

\* s.endswith(p)
EndsWith(s, p) ==
  Len(s) >= Len(p) /\ SubSeq(s, Len(s) - Len(p) + 1, Len(s)) = p

\* s.replace(old, new), old non-empty
RECURSIVE Replace(_, _, _)
Replace(s, old, new) ==
  IF s = <<>> THEN <<>>
  ELSE IF StartsWith(s, old)
       THEN new \o Replace(SubSeq(s, Len(old) + 1, Len(s)), old, new)
  ELSE <<Head(s)>> \o Replace(Tail(s), old, new)

IsSpace(c) == c \in {" ", "\n", "\t"}

\* s.strip()
RECURSIVE Strip(_)
Strip(s) ==
  IF s = <<>> THEN s
  ELSE IF IsSpace(s[1]) THEN Strip(Tail(s))
  ELSE IF IsSpace(s[Len(s)]) THEN Strip(SubSeq(s, 1, Len(s) - 1))
  ELSE s

\* ''.join(f"{m}{char}{m}" if char != ' ' else char for char in text)
RECURSIVE WrapEach(_, _)
WrapEach(text, m) ==
  IF text = <<>> THEN <<>>
  ELSE (IF Head(text) # " " THEN <<m, Head(text), m>> ELSE <<Head(text)>>)
       \o WrapEach(Tail(text), m)

\* list[i] that answers the empty string where the index is out of range
ListIndexOrEmpty(list, i) ==
  IF i >= 0 /\ i < Len(list) THEN [ok |-> TRUE, v |-> list[i + 1]]
  ELSE IF i < 0 /\ i >= 0 - Len(list)
       THEN [ok |-> TRUE, v |-> list[Len(list) + i + 1]]
  ELSE [ok |-> TRUE, v |-> <<>>]

\* list[i] with Python's indexing; ok is FALSE where Python raises IndexError
ListIndex(list, i) ==
  IF i >= 0 /\ i < Len(list) THEN [ok |-> TRUE, v |-> list[i + 1]]
  ELSE IF i < 0 /\ i >= 0 - Len(list)
       THEN [ok |-> TRUE, v |-> list[Len(list) + i + 1]]
  ELSE [ok |-> FALSE, v |-> <<>>]

\* dict.get(k, {})
DictGet(d, k) == IF k \in DOMAIN d THEN d[k] ELSE <<>>

\* d with d[k] = v
DictSet(d, k, v) == [x \in (DOMAIN d) \cup {k} |-> IF x = k THEN v ELSE d[x]]

EmptyDict == <<>>

\* ------------------------------------------------------------ constants
MergedSuffix == <<" ", "(", "m", "e", "r", "g", "e", "d", ")">>

DrawingsTitle == <<"\n", "D", "r", "a", "w", "i", "n", "g", "s", ":">>

DrawingsPrefix == <<".", ".", "/", "d", "r", "a", "w", "i", "n", "g", "s", "/">>

ParentDir == <<".", ".", "/">>

XlDir == <<"x", "l", "/">>

DrawingIdOpen == <<"D", "r", "a", "w", "i", "n", "g", " ", "(", "i", "d", ":", " ">>

DrawingIdClose == <<")", ":", "\n">>

DrawingFrom == <<")", " ", "f", "r", "o", "m", " ">>

MediaNote == <<" ", "(", "m", "e", "d", "i", "a", ")">>

\* --------------------------------------------------- extract_shared_strings
\* One <si>: kind "t" is <si><t>..</t></si>, kind "r" is <si><r><t>..</t></r>..</si>;
\* ts are the texts of its <t> descendants.  ok is FALSE where
\* si.find('main:t') is None and .text raises AttributeError.
SharedString(si) ==
  LET joined == Concat([i \in 1..Len(si.ts) |-> TextOrEmpty(si.ts[i])])
  IN  IF joined # <<>> THEN [ok |-> TRUE, v |-> joined]
      ELSE IF si.kind = "t" THEN [ok |-> TRUE, v |-> TextOrEmpty(si.ts[1])]
      ELSE [ok |-> FALSE, v |-> <<>>]

extract_shared_strings(part, old) ==
  IF ~part.present THEN [err |-> "none", v |-> old]
  ELSE IF \E i \in 1..Len(part.si) : ~SharedString(part.si[i]).ok
       THEN [err |-> "AttributeError", v |-> old]
  ELSE [err |-> "none",
        v |-> [i \in 1..Len(part.si) |-> SharedString(part.si[i]).v]]

\* ------------------------------------------------------------ extract_styles
\* fonts[i] is the val of the i-th font's <vertAlign>, "<none>" when the font
\* has no <vertAlign>, "<noval>" when the element has no val attribute (the
\* KeyError is swallowed by the except clause and ends the extraction).
RECURSIVE FontPass(_, _, _)
FontPass(fonts, i, st) ==
  IF i > Len(fonts) THEN [stopped |-> FALSE, v |-> st]
  ELSE IF fonts[i] = "<none>" THEN FontPass(fonts, i + 1, st)
  ELSE IF fonts[i] = "<noval>" THEN [stopped |-> TRUE, v |-> st]
  ELSE FontPass(fonts, i + 1, DictSet(st, i - 1, [vertAlign |-> fonts[i]]))

\* cellXfs[i] is the text of the indent attribute of the i-th xf's
\* <alignment>, None when there is none.
RECURSIVE XfPass(_, _, _)
XfPass(xfs, i, st) ==
  IF i > Len(xfs) THEN [err |-> "none", v |-> st]
  ELSE IF xfs[i] = None THEN XfPass(xfs, i + 1, st)
  ELSE IF ~PyInt(xfs[i]).ok THEN [err |-> "ValueError", v |-> st]
  ELSE XfPass(xfs, i + 1,
              DictSet(st, i - 1,
                      DictSet(DictGet(st, i - 1), "indent", PyInt(xfs[i]).n)))

extract_styles(part, old) ==
  IF ~part.present THEN [err |-> "none", v |-> old]
  ELSE LET f == FontPass(part.fonts, 1, old)
       IN  IF f.stopped THEN [err |-> "none", v |-> f.v]
           ELSE XfPass(part.cellXfs, 1, f.v)

\* ------------------------------------------------------ extract_merged_cells
extract_merged_cells(sheet) ==
  IF ~sheet.mergeCells THEN <<>> ELSE sheet.mergeRefs

\* ----------------------------------------------------- extract_relationships
\* The dict {Id: Target} as the sequence of its items in insertion order.
RECURSIVE DictItems(_, _)
DictItems(pairs, acc) ==
  IF pairs = <<>> THEN acc
  ELSE LET p == Head(pairs)
       IN  IF \E i \in 1..Len(acc) : acc[i].Id = p.Id
           THEN DictItems(Tail(pairs),
                  [i \in 1..Len(acc) |-> IF acc[i].Id = p.Id THEN p ELSE acc[i]])
           ELSE DictItems(Tail(pairs), Append(acc, p))

extract_relationships(part) ==
  IF ~part.present THEN <<>> ELSE DictItems(part.rels, <<>>)

\* ------------------------------------------------------- format_drawing_text
\* run.text is None when the run has no <a:t> or the <a:t> has no text;
\* run.baseline is 0 when the run has no <a:rPr>.
format_drawing_text(run) ==
  IF run.text = None THEN <<>>
  ELSE IF run.baseline > 0 THEN WrapEach(run.text, "^")
  ELSE IF run.baseline < 0 THEN WrapEach(run.text, "~")
  ELSE run.text

\* --------------------------------------------------------- extract_full_text
ParagraphText(paragraph) ==
  Concat([i \in 1..Len(paragraph) |->
            IF paragraph[i].tag = "r" THEN format_drawing_text(paragraph[i])
            ELSE IF paragraph[i].tag = "br" THEN <<"\n">>
            ELSE <<>>])

extract_full_text(paragraphs) ==
  Strip(Join([i \in 1..Len(paragraphs) |-> ParagraphText(paragraphs[i])],
             <<"\n">>))

\* -------------------------------------------------- extract_drawing_metadata
DrawingNote(rel, parts) ==
  LET drawing_file == Replace(rel.Target, ParentDir, XlDir)
  IN  IF ~StartsWith(rel.Target, DrawingsPrefix) THEN <<>>
      ELSE IF drawing_file \notin DOMAIN parts THEN <<>>
      ELSE LET text_content == extract_full_text(parts[drawing_file])
           IN  IF text_content # <<>>
               THEN <<DrawingIdOpen \o rel.Id \o DrawingIdClose \o text_content>>
               ELSE <<DrawingIdOpen \o rel.Id \o DrawingFrom \o drawing_file
                      \o MediaNote>>

extract_drawing_metadata(parts, rels) ==
  Concat([i \in 1..Len(rels) |-> DrawingNote(rels[i], parts)])

\* --------------------------------------------------------------- apply_styles
\* apply_styles with the subscript marker put around every character
apply_styles_subscript_each(value, style) ==
  LET aligned ==
        IF "vertAlign" \in DOMAIN style
        THEN IF style["vertAlign"] = "superscript" THEN PyFormat(value)
             ELSE IF style["vertAlign"] = "subscript"
                  THEN WrapEach(PyFormat(value), "_")
             ELSE value
        ELSE value
  IN  IF "indent" \in DOMAIN style
      THEN Rep("-", style["indent"]) \o <<">", " ">> \o PyFormat(aligned)
      ELSE aligned

\* apply_styles with the indent prefix put on before the vertical alignment
apply_styles_indent_first(value, style) ==
  LET indented ==
        IF "indent" \in DOMAIN style
        THEN Rep("-", style["indent"]) \o <<">", " ">> \o PyFormat(value)
        ELSE value
  IN  IF "vertAlign" \in DOMAIN style
      THEN IF style["vertAlign"] = "superscript" THEN PyFormat(indented)
           ELSE IF style["vertAlign"] = "subscript"
                THEN <<"_">> \o PyFormat(indented) \o <<"_">>
           ELSE indented
      ELSE indented

apply_styles(value, style) ==
  LET aligned ==
        IF "vertAlign" \in DOMAIN style
        THEN IF style["vertAlign"] = "superscript" THEN PyFormat(value)
             ELSE IF style["vertAlign"] = "subscript"
                  THEN <<"_">> \o PyFormat(value) \o <<"_">>
             ELSE value
        ELSE value
  IN  IF "indent" \in DOMAIN style
      THEN Rep("-", style["indent"]) \o <<">", " ">> \o PyFormat(aligned)
      ELSE aligned

\* --------------------------------------------------------------- process_cell
\* A cell <c>: r, t, s are its attributes (None when absent), hasV says that
\* it has a <v>, v is that element's text (None when it has no text), and is
\* is the list of its <is><r> runs, each the list of the texts of its <t>.
\* The result carries the values of the locals next to the returned value:
\* value after line 205, style after line 209, styled after line 210.
ResolveValue(cell, strings) ==
  IF cell.t = <<"s">>
  THEN IF ~cell.hasV THEN [err |-> "AttributeError", v |-> <<>>]
       ELSE IF cell.v = None THEN [err |-> "TypeError", v |-> <<>>]
       ELSE IF ~PyInt(cell.v).ok THEN [err |-> "ValueError", v |-> <<>>]
       ELSE LET e == ListIndex(strings, PyInt(cell.v).n)
            IN  IF e.ok THEN [err |-> "none", v |-> e.v]
                ELSE [err |-> "IndexError", v |-> <<>>]
  ELSE IF cell.hasV THEN [err |-> "none", v |-> cell.v]
  ELSE [err |-> "none", v |-> <<>>]

InlineText(runs) ==
  Concat([i \in 1..Len(runs) |->
            Concat([j \in 1..Len(runs[i]) |-> TextOrEmpty(runs[i][j])])])

\* all(cell_ref in m for m in merged_cells)
MarkedAll(cell_ref, merged) ==
  \A i \in 1..Len(merged) : IsSubstring(cell_ref, merged[i])

\* any(cell_ref in m for m in merged_cells)
Marked(cell_ref, merged) ==
  \E i \in 1..Len(merged) : IsSubstring(cell_ref, merged[i])

\* at is the line of process_cell that raised, 0 when none did
Failed(e, at, value, style, styled) ==
  [err |-> e, at |-> at, value |-> value, style |-> style, styled |-> styled,
   ret |-> <<>>]

process_cell(cell, merged, strings, st) ==
  LET r == ResolveValue(cell, strings)
      value == IF cell.is # <<>> THEN InlineText(cell.is) ELSE r.v
      sidx == IF cell.s = None THEN [ok |-> TRUE, n |-> -1] ELSE PyInt(cell.s)
      style == DictGet(st, sidx.n)
      styled == apply_styles(value, style)
      marked == Marked(cell.r, merged)
  IN  IF r.err # "none" THEN Failed(r.err, 196, <<>>, EmptyDict, <<>>)
      ELSE IF ~sidx.ok THEN Failed("ValueError", 208, value, EmptyDict, <<>>)
      ELSE IF cell.r = None THEN Failed("KeyError", 213, value, style, styled)
      ELSE IF marked /\ styled = None
           THEN Failed("TypeError", 215, value, style, styled)
      ELSE [err |-> "none", at |-> 0, value |-> value, style |-> style,
            styled |-> styled,
            ret |-> IF marked THEN styled \o MergedSuffix
                    ELSE IF styled = None THEN <<>> ELSE styled]

\* ---------------------------------------------------------- add_table_header
HeaderSeparator(first) ==
  LET parts == Split(first, "|")
      cols == SubSeq(parts, 2, Len(parts) - 1)
  IN  <<"|", " ">>
      \o Join([i \in 1..Len(cols) |-> Rep("-", Len(cols[i]))], <<" ", "|", " ">>)
      \o <<" ", "|">>

\* list.insert(1, x)
Insert1(list, x) ==
  IF list = <<>> THEN <<x>>
  ELSE <<Head(list), x>> \o Tail(list)

add_table_header(markdown_table) ==
  IF markdown_table # <<>>
  THEN Insert1(markdown_table, HeaderSeparator(markdown_table[1]))
  ELSE markdown_table

\* f"| {' | '.join(row_data)} |"
RowLine(row_data) ==
  <<"|", " ">> \o Join(row_data, <<" ", "|", " ">>) \o <<" ", "|">>

\* ------------------------------------------------------------- documents
SeqsUpTo(S, n) == UNION {[1..k -> S] : k \in 0..n}

Cell(r, t, hasV, v, s, is) ==
  [r |-> r, t |-> t, hasV |-> hasV, v |-> v, s |-> s, is |-> is]

NoCell == Cell(None, None, FALSE, None, None, <<>>)

NoSharedStrings == [present |-> FALSE, si |-> <<>>]

NoStyles == [present |-> FALSE, fonts |-> <<>>, cellXfs |-> <<>>]

NoDrawings == [rels |-> [present |-> FALSE, rels |-> <<>>], parts |-> <<>>]

Sheet(present, mergeCells, mergeRefs, rows) ==
  [present |-> present, mergeCells |-> mergeCells, mergeRefs |-> mergeRefs,
   rows |-> rows]

Document(sharedStrings, st, sheet, drawings) ==
  [sharedStrings |-> sharedStrings, styles |-> st, sheet |-> sheet,
   rels |-> drawings.rels, parts |-> drawings.parts]

T_Name == <<"N", "a", "m", "e">>

T_Age == <<"A", "g", "e">>

T_Pipe == <<"a", "|", "b">>

T_Merged == <<"x", " ", "(", "m", "e", "r", "g", "e", "d", ")">>

R_A1 == <<"A", "1">>

R_B2 == <<"B", "2">>

R_A11A20 == <<"A", "1", "1", ":", "A", "2", "0">>

R_A1C3 == <<"A", "1", ":", "C", "3">>

R_A1B2 == <<"A", "1", ":", "B", "2">>

Target1 == <<".", ".", "/", "d", "r", "a", "w", "i", "n", "g", "s", "/", "d", "1">>

Target2 == <<".", ".", "/", "m", "e", "d", "i", "a", "/", "i", "1">>

File1 == <<"x", "l", "/", "d", "r", "a", "w", "i", "n", "g", "s", "/", "d", "1">>

Rel(id, target) == [Id |-> id, Target |-> target]

Run(text, baseline) == [tag |-> "r", text |-> text, baseline |-> baseline]

Break == [tag |-> "br", text |-> None, baseline |-> 0]

Rels(list) == [present |-> TRUE, rels |-> list]

\* the relationship part and the drawing parts of a document
DrawingSetups ==
  { NoDrawings,
    [rels |-> Rels(<<Rel(<<"r", "1">>, Target1)>>),
     parts |-> File1 :> << <<Run(<<"H", " ", "2">>, 1), Break, Run(<<"O">>, -1)>> >>],
    [rels |-> Rels(<<Rel(<<"r", "1">>, Target1)>>),
     parts |-> File1 :> << <<Run(None, 0)>> >>],
    [rels |-> Rels(<<Rel(<<"r", "1">>, Target1)>>), parts |-> <<>>],
    [rels |-> Rels(<<Rel(<<"r", "2">>, Target2)>>),
     parts |-> File1 :> << <<Run(<<"O">>, 0)>> >>] }

\* documents for the table renderer: literal cells, no styles, no merges
TableCells ==
  { Cell(R_A1, None, FALSE, None, None, <<>>),
    Cell(R_A1, None, TRUE, T_Name, None, <<>>),
    Cell(R_A1, None, TRUE, T_Age, None, <<>>),
    Cell(R_A1, None, TRUE, T_Pipe, None, <<>>) }

TableDocs ==
  { Document(NoSharedStrings, NoStyles, Sheet(TRUE, FALSE, <<>>, rows), d) :
      rows \in SeqsUpTo(SeqsUpTo(TableCells, MaxCells), MaxRows),
      d \in DrawingSetups }
  \cup { Document(NoSharedStrings, NoStyles, Sheet(FALSE, FALSE, <<>>, <<>>),
                  NoDrawings) }

\* documents for the style resolver: one literal cell, every style part
FontEntries == {"<none>", "<noval>", "superscript", "subscript"}

XfEntries == {None} \cup {IntText(n) : n \in 0..MaxIndent}

StyleParts ==
  { NoStyles } \cup
  { [present |-> TRUE, fonts |-> f, cellXfs |-> x] :
      f \in SeqsUpTo(FontEntries, MaxFonts), x \in SeqsUpTo(XfEntries, MaxXfs) }

StyleCells ==
  { Cell(R_A1, None, v # <<>>, v, s, <<>>) :
      v \in {<<>>, None, <<"A", "B">>, <<"A", " ", "B">>},
      s \in {None} \cup {IntText(n) : n \in 0..MaxFonts} }

StyleDocs ==
  { Document(NoSharedStrings, p, Sheet(TRUE, FALSE, <<>>, << <<c>> >>), NoDrawings) :
      p \in StyleParts, c \in StyleCells }

\* documents for the cell value resolver: one cell of every form
SiEntries ==
  { [kind |-> "t", ts |-> <<<<"A">>>>],
    [kind |-> "r", ts |-> <<<<"B">>, <<"C">>>>],
    [kind |-> "t", ts |-> <<None>>],
    [kind |-> "r", ts |-> <<None>>] }

SharedStringParts ==
  { NoSharedStrings } \cup
  { [present |-> TRUE, si |-> l] : l \in SeqsUpTo(SiEntries, MaxSi) }

CellStyleParts ==
  { NoStyles,
    [present |-> TRUE, fonts |-> <<"superscript", "subscript">>,
     cellXfs |-> <<None, IntText(1)>>] }

MergeSetups ==
  { [mergeCells |-> FALSE, mergeRefs |-> <<>>],
    [mergeCells |-> TRUE, mergeRefs |-> <<>>],
    [mergeCells |-> TRUE, mergeRefs |-> <<R_A11A20>>],
    [mergeCells |-> TRUE, mergeRefs |-> <<R_A1C3>>],
    [mergeCells |-> TRUE, mergeRefs |-> <<R_A1B2, R_A11A20>>] }

ValueCells ==
  { Cell(r, t, hasV, IF hasV THEN v ELSE None, s, is) :
      r \in {R_A1, R_B2},
      t \in {None, <<"s">>},
      hasV \in BOOLEAN,
      v \in {None, IntText(0), IntText(-1), IntText(MaxSi), <<"A">>, T_Merged},
      s \in {None, IntText(0), IntText(1)},
      is \in {<<>>, << <<<<"i">>, None>> >>} }

CellDocs ==
  { Document(p, st, Sheet(TRUE, m.mergeCells, m.mergeRefs, << <<c>> >>),
             NoDrawings) :
      p \in SharedStringParts, st \in CellStyleParts, m \in MergeSetups,
      c \in ValueCells }

\* ------------------------------------------------------------------- state
VARIABLES doc, pc, err, shared_strings, styles, merged_cells, relationships,
          drawing_metadata, markdown_table, row, col, row_data, cells, cell,
          out, output

vars == <<doc, pc, err, shared_strings, styles, merged_cells, relationships,
          drawing_metadata, markdown_table, row, col, row_data, cells, cell,
          out, output>>

NoOut == Failed("none", 0, <<>>, EmptyDict, <<>>)

\* the converter after __init__, before convert
Start(d) ==
  /\ doc = d
  /\ pc = "extract_shared_strings"
  /\ err = "none"
  /\ shared_strings = <<>>
  /\ styles = EmptyDict
  /\ merged_cells = <<>>
  /\ relationships = <<>>
  /\ drawing_metadata = <<>>
  /\ markdown_table = <<>>
  /\ row = 1
  /\ col = 0
  /\ row_data = <<>>
  /\ cells = 0
  /\ cell = NoCell
  /\ out = NoOut
  /\ output = <<>>

Init == \E d \in TableDocs : Start(d)

InitStyles == \E d \in StyleDocs : Start(d)

InitCell == \E d \in CellDocs : Start(d)

\* ----------------------------------------------------------------- convert
ExtractSharedStrings ==
  /\ pc = "extract_shared_strings"
  /\ LET e == extract_shared_strings(doc.sharedStrings, shared_strings)
     IN  /\ shared_strings' = e.v
         /\ err' = e.err
         /\ pc' = IF e.err = "none" THEN "extract_styles" ELSE "failed"
  /\ UNCHANGED <<doc, styles, merged_cells, relationships, drawing_metadata,
                 markdown_table, row, col, row_data, cells, cell, out, output>>

ExtractStyles ==
  /\ pc = "extract_styles"
  /\ LET e == extract_styles(doc.styles, styles)
     IN  /\ styles' = e.v
         /\ err' = e.err
         /\ pc' = IF e.err = "none" THEN "extract_merged_cells" ELSE "failed"
  /\ UNCHANGED <<doc, shared_strings, merged_cells, relationships,
                 drawing_metadata, markdown_table, row, col, row_data, cells,
                 cell, out, output>>

\* zip_ref.open(worksheet_path), then the first argument of build_markdown_table
ExtractMergedCells ==
  /\ pc = "extract_merged_cells"
  /\ merged_cells' = IF doc.sheet.present THEN extract_merged_cells(doc.sheet)
                     ELSE merged_cells
  /\ err' = IF doc.sheet.present THEN "none" ELSE "KeyError"
  /\ pc' = IF doc.sheet.present THEN "extract_relationships" ELSE "failed"
  /\ UNCHANGED <<doc, shared_strings, styles, relationships, drawing_metadata,
                 markdown_table, row, col, row_data, cells, cell, out, output>>

ExtractRelationships ==
  /\ pc = "extract_relationships"
  /\ relationships' = extract_relationships(doc.rels)
  /\ pc' = "extract_drawing_metadata"
  /\ UNCHANGED <<doc, err, shared_strings, styles, merged_cells,
                 drawing_metadata, markdown_table, row, col, row_data, cells,
                 cell, out, output>>

ExtractDrawingMetadata ==
  /\ pc = "extract_drawing_metadata"
  /\ drawing_metadata' = extract_drawing_metadata(doc.parts, relationships)
  /\ pc' = "build_markdown_table"
  /\ UNCHANGED <<doc, err, shared_strings, styles, merged_cells, relationships,
                 markdown_table, row, col, row_data, cells, cell, out, output>>

\* build_markdown_table up to the loop over the rows
BuildPreface ==
  /\ pc = "build_markdown_table"
  /\ markdown_table' =
       IF drawing_metadata # <<>>
       THEN <<DrawingsTitle>>
            \o [i \in 1..Len(drawing_metadata) |->
                  <<"*", " ">> \o drawing_metadata[i]]
            \o << <<"\n">> >>
       ELSE <<>>
  /\ pc' = "rows"
  /\ UNCHANGED <<doc, err, shared_strings, styles, merged_cells, relationships,
                 drawing_metadata, row, col, row_data, cells, cell, out, output>>

\* one call of process_cell in the comprehension that builds row_data
ProcessCell ==
  /\ pc = "rows"
  /\ row <= Len(doc.sheet.rows)
  /\ col < Len(doc.sheet.rows[row])
  /\ LET c == doc.sheet.rows[row][col + 1]
         o == process_cell(c, merged_cells, shared_strings, styles)
     IN  /\ cell' = c
         /\ out' = o
         /\ err' = o.err
         /\ cells' = cells + 1
         /\ IF o.err = "none"
            THEN /\ row_data' = Append(row_data, o.ret)
                 /\ col' = col + 1
                 /\ pc' = pc
            ELSE /\ pc' = "failed"
                 /\ UNCHANGED <<row_data, col>>
  /\ UNCHANGED <<doc, shared_strings, styles, merged_cells, relationships,
                 drawing_metadata, markdown_table, row, output>>

\* the end of one pass of the loop over the rows
EndRow ==
  /\ pc = "rows"
  /\ row <= Len(doc.sheet.rows)
  /\ col = Len(doc.sheet.rows[row])
  /\ markdown_table' = IF row_data # <<>>
                       THEN Append(markdown_table, RowLine(row_data))
                       ELSE markdown_table
  /\ row' = row + 1
  /\ col' = 0
  /\ row_data' = <<>>
  /\ UNCHANGED <<doc, pc, err, shared_strings, styles, merged_cells,
                 relationships, drawing_metadata, cells, cell, out, output>>

AddTableHeader ==
  /\ pc = "rows"
  /\ row > Len(doc.sheet.rows)
  /\ markdown_table' = add_table_header(markdown_table)
  /\ output' = Join(markdown_table', <<"\n">>)
  /\ pc' = "done"
  /\ UNCHANGED <<doc, err, shared_strings, styles, merged_cells, relationships,
                 drawing_metadata, row, col, row_data, cells, cell, out>>

Next ==
  \/ ExtractSharedStrings
  \/ ExtractStyles
  \/ ExtractMergedCells
  \/ ExtractRelationships
  \/ ExtractDrawingMetadata
  \/ BuildPreface
  \/ ProcessCell
  \/ EndRow
  \/ AddTableHeader

Spec == Init /\ [][Next]_vars

SpecStyles == InitStyles /\ [][Next]_vars

SpecCell == InitCell /\ [][Next]_vars

\* ------------------------------------------------------------ properties
\* a cell has been processed: cell is the last one, out the locals and result
CellDone == cells > 0

Returned == CellDone /\ out.err = "none"

HasCells(i) == Len(doc.sheet.rows[i]) > 0

HasRowLine == \E i \in 1..Len(doc.sheet.rows) : HasCells(i)

FirstRow ==
  doc.sheet.rows[CHOOSE i \in 1..Len(doc.sheet.rows) :
                   HasCells(i) /\ \A j \in 1..(i - 1) : ~HasCells(j)]

FirstRowData ==
  [k \in 1..Len(FirstRow) |->
     process_cell(FirstRow[k], merged_cells, shared_strings, styles).ret]

Preface ==
  IF drawing_metadata = <<>> THEN <<>>
  ELSE <<DrawingsTitle>>
       \o [i \in 1..Len(drawing_metadata) |-> <<"*", " ">> \o drawing_metadata[i]]
       \o << <<"\n">> >>

SeparatorColumns(line) ==
  LET parts == Split(line, "|") IN SubSeq(parts, 2, Len(parts) - 1)

DashCount(column) == Cardinality({i \in 1..Len(column) : column[i] = "-"})

IsSeparatorLine(line) ==
  /\ Len(line) >= 2
  /\ line[1] = "|"
  /\ \A i \in 1..Len(line) : line[i] \in {"|", " ", "-"}

HasDash(line) == \E i \in 1..Len(line) : line[i] = "-"

L_NameAge == <<"|", " ", "N", "a", "m", "e", " ", "|", " ", "A", "g", "e", " ", "|">>

L_SepNameAge == <<"|", " ", "-", "-", "-", "-", " ", "|", " ", "-", "-", "-", " ", "|">>

IsNameAgeSheet ==
  /\ doc.sheet.rows = << <<Cell(R_A1, None, TRUE, T_Name, None, <<>>),
                          Cell(R_A1, None, TRUE, T_Age, None, <<>>)>> >>
  /\ ~doc.rels.present

\* C1: when the sheet yields a row line, the separator that add_table_header
\* inserts has as many columns as the first data row has cells, and the dash
\* run of column k is as long as the rendered text of the k-th cell of that
\* row; the sheet with the one row "Name", "Age" and no drawings gives the two
\* lines "| Name | Age |" and "| ---- | --- |".
C1_SeparatorMatchesFirstRow ==
  (pc = "done" /\ HasRowLine) =>
    /\ LET cols == SeparatorColumns(markdown_table[2])
       IN  /\ Len(cols) = Len(FirstRowData)
           /\ \A k \in 1..Len(cols) :
                k <= Len(FirstRowData) => DashCount(cols[k]) = Len(FirstRowData[k])
    /\ IsNameAgeSheet => markdown_table = <<L_NameAge, L_SepNameAge>>

\* C9: the separator line comes right after the line of the first data row,
\* also when the drawing preface is put before the row lines; a sheet with no
\* row line gets no separator derived from a data row.
C9_SeparatorFollowsFirstRow ==
  pc = "done" =>
    IF HasRowLine
    THEN /\ Len(markdown_table) >= Len(Preface) + 2
         /\ SubSeq(markdown_table, 1, Len(Preface)) = Preface
         /\ markdown_table[Len(Preface) + 1] = RowLine(FirstRowData)
         /\ IsSeparatorLine(markdown_table[Len(Preface) + 2])
    ELSE \A i \in 1..Len(markdown_table) : ~HasDash(markdown_table[i])

IsText(v) == v # None

HasVertAlign(style, val) ==
  "vertAlign" \in DOMAIN style /\ style["vertAlign"] = val

IndentPrefix(style) ==
  IF "indent" \in DOMAIN style
  THEN Rep("-", style["indent"]) \o <<">", " ">>
  ELSE <<>>

WithoutIndent(style) == [k \in (DOMAIN style) \ {"indent"} |-> style[k]]

\* C2: under a style whose vertical-align is superscript the value is rendered
\* with every non-space character wrapped as ^c^ and every space left as it
\* is, so a value with a non-space character never comes out unmodified.
C2_SuperscriptWrapsEachCharacter ==
  (Returned /\ IsText(out.value) /\ HasVertAlign(out.style, "superscript")) =>
    /\ out.styled = IndentPrefix(out.style) \o WrapEach(out.value, "^")
    /\ (\E i \in 1..Len(out.value) : out.value[i] # " ") => out.styled # out.value

\* the text of the value that apply_styles is given (None is formatted as
\* the text None)
TextOf(v) == IF v = None THEN <<"N", "o", "n", "e">> ELSE v

ValueText == TextOf(out.value)

\* the cell reached line 210: its value was resolved and its style looked up
Styled == CellDone /\ out.at \notin {196, 208}

\* C6: under a style whose vertical-align is subscript the whole value is
\* wrapped once, "_" + v + "_", never once per character, and for a non-empty
\* v the result differs from the rendering of v under superscript.
C6_SubscriptWrapsWholeValueOnce ==
  (Styled /\ HasVertAlign(out.style, "subscript")) =>
    /\ out.styled = IndentPrefix(out.style) \o <<"_">> \o ValueText \o <<"_">>
    /\ Len(out.styled) = Len(IndentPrefix(out.style)) + Len(ValueText) + 2
    /\ ValueText # <<>> =>
         out.styled # apply_styles(out.value,
                                   [out.style EXCEPT !["vertAlign"] = "superscript"])

C6_Witness ==
  /\ Returned
  /\ HasVertAlign(out.style, "subscript")
  /\ out.value = <<"A", "B">>
  /\ out.styled = <<"_", "A", "B", "_">>

\* the indent attribute of the xf at the position the cell's s names
DeclaredIndent ==
  PyInt(doc.styles.cellXfs[PyInt(cell.s).n + 1]).n

\* C7: under a style with indent n >= 0 (0 too) apply_styles gives n times
\* '-', then '>' and one space, then the value as the vertical-align step left
\* it: the prefix goes outside the wrapping, whatever the value.
C7_IndentPrefixOutsideWrapping ==
  (Styled /\ "indent" \in DOMAIN out.style) =>
    LET n == out.style["indent"]
        prefix == [i \in 1..n |-> "-"] \o <<">", " ">>
    IN  /\ n >= 0
        /\ n = DeclaredIndent
        /\ Len(prefix) = n + 2
        /\ out.styled =
             prefix \o TextOf(apply_styles(out.value, WithoutIndent(out.style)))
        /\ HasVertAlign(out.style, "subscript") =>
             out.styled = prefix \o <<"_">> \o ValueText \o <<"_">>
        /\ "vertAlign" \notin DOMAIN out.style =>
             out.styled = prefix \o ValueText

C7_Witness ==
  /\ Returned
  /\ HasVertAlign(out.style, "subscript")
  /\ "indent" \in DOMAIN out.style
  /\ out.style["indent"] = 0
  /\ out.value = <<"A", " ", "B">>
  /\ out.styled = <<">", " ", "_", "A", " ", "B", "_">>

IsSharedStringCell == cell.t = <<"s">>

HasIntegerIndex == cell.hasV /\ IsText(cell.v) /\ PyInt(cell.v).ok

IndexInRange ==
  PyInt(cell.v).n >= 0 /\ PyInt(cell.v).n < Len(shared_strings)

\* C3: a shared-string cell whose index is not in 0..length-1 (too large or
\* negative) aborts the conversion with the out-of-range error; process_cell
\* returns no string for it.
C3_OutOfRangeIndexAborts ==
  (CellDone /\ IsSharedStringCell /\ HasIntegerIndex /\ ~IndexInRange) =>
    /\ out.err = "IndexError"
    /\ pc = "failed"

IsLiteralCell == ~IsSharedStringCell /\ cell.hasV /\ cell.is = <<>>

Unmarked == \A i \in 1..Len(merged_cells) : ~IsSubstring(cell.r, merged_cells[i])

NoSharedStringPart == ~doc.sharedStrings.present

SharedStringsExtracted == pc # "extract_shared_strings"

\* C4 as stated: with no shared-string part extract_shared_strings raises
\* nothing and leaves the table empty, every shared-string cell resolves to
\* the empty value without an error, and every literal cell renders its raw
\* literal text.
C4_MissingPartResolvesToEmpty ==
  NoSharedStringPart =>
    /\ SharedStringsExtracted => shared_strings = <<>>
    /\ (CellDone /\ IsSharedStringCell /\ cell.is = <<>>) =>
         out.err = "none" /\ out.value = <<>>
    /\ (CellDone /\ IsLiteralCell) => out.value = cell.v

\* C4 amended: with no shared-string part extract_shared_strings raises
\* nothing and leaves the table empty; every shared-string cell then fails
\* (with the out-of-range error for every integer index), so convert
\* completes only for a sheet with no such cell; the value of every literal
\* cell resolves to its raw literal text, which is what process_cell returns
\* when the cell has no style entry and its reference is in no merge token.
C4_MissingPartAbortsOnReference ==
  NoSharedStringPart =>
    /\ SharedStringsExtracted => shared_strings = <<>>
    /\ (pc = "failed" /\ ~CellDone) => err # "AttributeError"
    /\ (CellDone /\ IsSharedStringCell) =>
         /\ out.err # "none"
         /\ pc = "failed"
         /\ HasIntegerIndex => out.err = "IndexError"
    /\ (CellDone /\ IsLiteralCell) =>
         /\ out.value = cell.v
         /\ (out.style = EmptyDict /\ Unmarked) =>
              out.err = "none" /\ out.ret = TextOrEmpty(cell.v)
    /\ pc = "done" =>
         \A i \in 1..Len(doc.sheet.rows) : \A k \in 1..Len(doc.sheet.rows[i]) :
           doc.sheet.rows[i][k].t # <<"s">>

C4_Witness ==
  /\ NoSharedStringPart
  /\ CellDone
  /\ IsSharedStringCell
  /\ cell.v = <<"0">>
  /\ out.err = "IndexError"
  /\ pc = "failed"

NoMergeRanges == ~doc.sheet.mergeCells \/ doc.sheet.mergeRefs = <<>>

\* C5 as stated: in a document with no merge ranges no value returned by
\* process_cell ends with " (merged)".
C5_NoMergeNoSuffix ==
  (Returned /\ NoMergeRanges) => ~EndsWith(out.ret, MergedSuffix)

\* C5 amended: in a document with no merge ranges process_cell appends
\* nothing: it returns the styled value (the empty string for None), which
\* ends with " (merged)" only where the styled value itself ends with it.
C5_NoMergeNothingAppended ==
  (CellDone /\ NoMergeRanges) =>
    /\ ~IsSharedStringCell => out.err = "none"
    /\ Returned =>
         /\ out.ret = TextOrEmpty(out.styled)
         /\ EndsWith(out.ret, MergedSuffix) => EndsWith(out.styled, MergedSuffix)

C5_Witness ==
  /\ Returned
  /\ doc.sheet.mergeCells
  /\ doc.sheet.mergeRefs = <<>>
  /\ HasVertAlign(out.style, "subscript")
  /\ out.ret = <<"-", ">", " ", "_", "A", "_">>

\* a occurs in b as a run of consecutive characters
OccursIn(a, b) ==
  \E i \in 1..(Len(b) + 1) : \E j \in (i - 1)..Len(b) :
    j - i + 1 = Len(a) /\ \A k \in 1..Len(a) : b[i + k - 1] = a[k]

\* C8: process_cell appends " (merged)" to the styled value exactly when the
\* cell's reference occurs as a substring of some merge token: "A1" is marked
\* for "A11:A20", "B2" is not marked for "A1:C3", and the suffix is appended
\* once even when several tokens match.
C8_MergedSuffixIffSubstring ==
  Styled =>
    LET styled == TextOrEmpty(out.styled)
    IN  /\ out.err = "none"
        /\ out.ret =
             IF \E i \in 1..Len(merged_cells) : OccursIn(cell.r, merged_cells[i])
             THEN styled \o MergedSuffix
             ELSE styled
        /\ (cell.r = R_A1 /\ merged_cells = <<R_A11A20>>) =>
             out.ret = styled \o MergedSuffix
        /\ (cell.r = R_B2 /\ merged_cells = <<R_A1C3>>) => out.ret = styled
        /\ (cell.r = R_A1 /\ merged_cells = <<R_A1B2, R_A11A20>>) =>
             out.ret = styled \o MergedSuffix

HasNoValue == (~cell.hasV \/ cell.v = None) /\ cell.is = <<>>

\* C10: for a cell with a reference and, if typed as a shared string, a valid
\* index, process_cell returns a string and raises nothing; a cell with no
\* value element, or a value element with no text, is rendered as the empty
\* string is rendered: styled by its style, with the merge suffix if marked.
C10_AlwaysReturnsString ==
  (CellDone /\ cell.r # None
     /\ (IsSharedStringCell => HasIntegerIndex /\ IndexInRange)) =>
    /\ out.err = "none"
    /\ out.ret # None
    /\ (~IsSharedStringCell /\ HasNoValue) =>
         out.ret = apply_styles(<<>>, out.style)
                   \o (IF Unmarked THEN <<>> ELSE MergedSuffix)

====
